---- MODULE Spec2Model ----
(***************************************************************************)
(* Typestate pushdown automaton (src/src/lib.rs) and the way a driver      *)
(* (src/src/bin/main.rs) holds and consumes machine values.                *)
(*                                                                         *)
(* A Machine<X> is the record [state, transaction, storage]; the state tag *)
(* is the name of the type parameter X.  Every *_from function of lib.rs   *)
(* is an operator from the consumed machine (and the payload) to what the  *)
(* function returns; every action applies one of them to the live machine. *)
(***************************************************************************)
EXTENDS Naturals, Sequences, FiniteSets

VARIABLES machine, error, history

vars == <<machine, error, history>>

-----------------------------------------------------------------------------
(* Bounds *)

\* Longest tape of a machine the driver starts with.
MaxTape == 2

\* Most operations the driver applies to one automaton instance.
MaxOps == 8

\* Most push and pop calls made directly on the storage of one machine.
MaxCalls == 4

-----------------------------------------------------------------------------
(* Result<T, E> *)

Ok(v) == [ok |-> TRUE, value |-> v]

Err(e) == [ok |-> FALSE, error |-> e]

-----------------------------------------------------------------------------
(* transaction: payloads and the container enum *)

\* The &'static str literals a PrintTransaction is built from.
Strs == {"Hello", "dbg"}

Epsilon == [type |-> "Epsilon"]

PrintTransaction(s) == [type |-> "PrintTransaction", str |-> s]

EpsilonValues == {Epsilon}

PrintTransactionValues == {PrintTransaction(s) : s \in Strs}

\* enum TransactionItem { Epsilon(Epsilon), Print(PrintTransaction) }
Item_Epsilon(x) == [variant |-> "Epsilon", inner |-> x]

Item_Print(x) == [variant |-> "Print", inner |-> x]

TransactionItem ==
    {Item_Epsilon(x) : x \in EpsilonValues} \cup {Item_Print(x) : x \in PrintTransactionValues}

\* impl From<Epsilon> for TransactionItem
From_Epsilon(x) == Item_Epsilon(x)

\* Faulty From<PrintTransaction>: the value is wrapped in the Epsilon variant.
From_PrintTransaction_eps(x) == Item_Epsilon(x)

\* impl From<PrintTransaction> for TransactionItem
From_PrintTransaction(x) == Item_Print(x)

\* format!("{:?}", e) of a TransactionItem (derive(Debug)).
fmt_Debug(e) ==
    IF e.variant = "Epsilon"
    THEN "Epsilon(Epsilon)"
    ELSE "Print(PrintTransaction(\"" \o e.inner.str \o "\"))"

\* impl From<(S1, S2)> for RuntimeConstraintError
RuntimeConstraintError(expected, factual) ==
    [fail |-> "RuntimeConstraintError", expected |-> expected, factual |-> factual]

\* Faulty TryFrom for Epsilon: the variant is not looked at.
TryFrom_Epsilon_any(tc) == Ok(Epsilon)

\* Faulty TryFrom for Epsilon: every item is refused, the Epsilon variant too.
TryFrom_Epsilon_never(tc) ==
    Err(RuntimeConstraintError("TransactionItem::Epsilon", fmt_Debug(tc)))

\* impl TryFrom<TransactionItem> for Epsilon
TryFrom_Epsilon(tc) ==
    IF tc.variant = "Epsilon"
    THEN Ok(tc.inner)
    ELSE Err(RuntimeConstraintError("TransactionItem::Epsilon", fmt_Debug(tc)))

\* Faulty TryFrom for PrintTransaction: the inner value of any variant is returned.
TryFrom_PrintTransaction_any(tc) == Ok(tc.inner)

\* impl TryFrom<TransactionItem> for PrintTransaction
TryFrom_PrintTransaction(tc) ==
    IF tc.variant = "Print"
    THEN Ok(tc.inner)
    ELSE Err(RuntimeConstraintError("TransactionItem::Print", fmt_Debug(tc)))

-----------------------------------------------------------------------------
(* function::helper *)

\* pack_transaction::<T, TransactionItem>(x) is x.into(), resolved on the type of x.
pack_transaction(x) ==
    IF x.type = "Epsilon" THEN From_Epsilon(x) ELSE From_PrintTransaction(x)

\* unpack_transaction::<T, TransactionItem>(tc) is tc.try_into(), resolved on the
\* target type T, here named by its type name.
unpack_transaction(T, tc) ==
    IF T = "Epsilon" THEN TryFrom_Epsilon(tc) ELSE TryFrom_PrintTransaction(tc)

-----------------------------------------------------------------------------
(* state: the TopLevel states and their Transaction types *)

TopLevel == {"Wait<Start>", "Wait<Input>", "Action<Print>", "Action<Load>", "Finished"}

\* <X as State>::Transaction, as the name of the type.
TransactionType(X) == IF X = "Action<Print>" THEN "PrintTransaction" ELSE "Epsilon"

\* The values of <X as State>::Transaction.
TransactionValues(X) ==
    IF TransactionType(X) = "PrintTransaction" THEN PrintTransactionValues ELSE EpsilonValues

-----------------------------------------------------------------------------
(* service::StackStorage *)

StackPopError == [fail |-> "StackPopError"]

StackStorage(tape) == [tape |-> tape]

\* Faulty push: the value is dropped, the tape is left as it was.
push_drop(self, t) ==
    [ret |-> Ok(<<>>), self |-> self]

\* Faulty push: a tape that already holds an item refuses another.
push_bounded(self, t) ==
    IF Len(self.tape) >= 1
    THEN [ret |-> Err([fail |-> "StackFull"]), self |-> self]
    ELSE [ret |-> Ok(<<>>), self |-> StackStorage(Append(self.tape, t))]

\* StackStorage::push(&mut self, t): the Result returned and self afterwards.
push(self, t) ==
    [ret |-> Ok(<<>>), self |-> StackStorage(Append(self.tape, t))]

\* Faulty pop: the top is returned and left on the tape.
pop_keep(self) ==
    IF Len(self.tape) = 0
    THEN [ret |-> Err(StackPopError), self |-> self]
    ELSE [ret |-> Ok(self.tape[Len(self.tape)]), self |-> self]

\* Faulty pop: an empty tape yields a default item instead of StackPopError.
pop_default(self) ==
    IF Len(self.tape) = 0
    THEN [ret |-> Ok(Item_Epsilon(Epsilon)), self |-> self]
    ELSE [ret  |-> Ok(self.tape[Len(self.tape)]),
          self |-> StackStorage(SubSeq(self.tape, 1, Len(self.tape) - 1))]

\* Faulty pop: the oldest element is removed and returned, not the newest.
pop_bottom(self) ==
    IF Len(self.tape) = 0
    THEN [ret |-> Err(StackPopError), self |-> self]
    ELSE [ret  |-> Ok(self.tape[1]),
          self |-> StackStorage(SubSeq(self.tape, 2, Len(self.tape)))]

\* StackStorage::pop(&mut self): the Result returned and self afterwards.
pop(self) ==
    IF Len(self.tape) = 0
    THEN [ret |-> Err(StackPopError), self |-> self]
    ELSE [ret  |-> Ok(self.tape[Len(self.tape)]),
          self |-> StackStorage(SubSeq(self.tape, 1, Len(self.tape) - 1))]

-----------------------------------------------------------------------------
(* Machine<X> and function::error *)

Machine(X, transaction, storage) ==
    [state |-> X, transaction |-> transaction, storage |-> storage]

ErrorKind == {"ConstraintError", "LogicError"}

\* MachineError { machine: Box::new(machine.clone()), inner: failure.context(context) }
MachineError(m, failure, kind) ==
    [machine |-> m, inner |-> [context |-> kind, failure |-> failure]]

\* Faulty context: every failure is classified LogicError, whatever kind was passed.
context_logic(self, kind, m) ==
    IF self.ok THEN self ELSE Err(MachineError(m, self.error, "LogicError"))

\* SnapshottedErrorExt::context(self, context, machine): map_err over the Result.
context(self, kind, m) ==
    IF self.ok THEN self ELSE Err(MachineError(m, self.error, kind))

-----------------------------------------------------------------------------
(* Transition implementations *)

\* impl TransitionFrom<Machine<Wait<Start>>> for Machine<Wait<Input>>
transition_from_Start_Input(old, t) ==
    Machine("Wait<Input>", t, old.storage)

\* Faulty transition into Finished: the machine is built with a fresh storage.
transition_from_Input_Finished_fresh(old, t) ==
    Machine("Finished", t, StackStorage(<<>>))

\* impl TransitionFrom<Machine<Wait<Input>>> for Machine<Finished>
transition_from_Input_Finished(old, t) ==
    Machine("Finished", t, old.storage)

\* What a function leaves behind when .expect() meets an Err.
Panic(msg) == [panic |-> msg]

\* Faulty pushdown into Action<Print>: the old payload is packed but never pushed.
pushdown_from_Input_Print_noarchive(old, t) ==
    LET old_transaction == pack_transaction(old.transaction)
    IN  Machine("Action<Print>", t, old.storage)

\* impl PushdownFrom<Machine<Wait<Input>>, TransactionItem> for Machine<Action<Print>>
pushdown_from_Input_Print(old, t) ==
    LET old_transaction == pack_transaction(old.transaction)
        pushed == push(old.storage, old_transaction)
    IN  IF pushed.ret.ok
        THEN Machine("Action<Print>", t, pushed.self)
        ELSE Panic("Never type triggered!")

\* Faulty pushdown into Action<Load>: the new payload is archived, not the old one.
pushdown_from_Print_Load_new(old, t) ==
    LET pushed == push(old.storage, pack_transaction(t))
    IN  IF pushed.ret.ok
        THEN Machine("Action<Load>", t, pushed.self)
        ELSE Panic("Never type triggered!")

\* impl PushdownFrom<Machine<Action<Print>>, TransactionItem> for Machine<Action<Load>>
pushdown_from_Print_Load(old, t) ==
    LET old_transaction == pack_transaction(old.transaction)
        pushed == push(old.storage, old_transaction)
    IN  IF pushed.ret.ok
        THEN Machine("Action<Load>", t, pushed.self)
        ELSE Panic("Never type triggered!")

\* impl PullupFrom<Machine<Action<Print>>, TransactionItem> for Machine<Wait<Input>>
\* The pop mutates `old` before either snapshot of it is taken; old1 is `old` after
\* the pop.  `?` returns the Err as it is (From<MachineError> for MachineError).
pullup_from_Print_Input(old) ==
    LET popped == pop(old.storage)
        old1   == Machine(old.state, old.transaction, popped.self)
        logic  == context(popped.ret, "LogicError", old1)
        old_transaction ==
            IF logic.ok
            THEN context(unpack_transaction("Epsilon", logic.value), "ConstraintError", old1)
            ELSE logic
    IN  IF old_transaction.ok
        THEN Ok(Machine("Wait<Input>", old_transaction.value, old1.storage))
        ELSE old_transaction

\* Faulty pullup out of Action<Load>: the popped value is overwritten by the
\* debugging literal.
pullup_from_Load_Print_dbg(old) ==
    LET popped == pop(old.storage)
        old1   == Machine(old.state, old.transaction, popped.self)
        logic  == context(popped.ret, "LogicError", old1)
        old_transaction ==
            IF logic.ok
            THEN context(unpack_transaction("PrintTransaction", logic.value),
                         "ConstraintError", old1)
            ELSE logic
    IN  IF old_transaction.ok
        THEN Ok(Machine("Action<Print>", PrintTransaction("dbg"), old1.storage))
        ELSE old_transaction

\* Faulty pullup out of Action<Load>: it lands in Wait<Input>, skipping Action<Print>.
pullup_from_Load_Print_skip(old) ==
    LET popped == pop(old.storage)
        old1   == Machine(old.state, old.transaction, popped.self)
        logic  == context(popped.ret, "LogicError", old1)
        old_transaction ==
            IF logic.ok
            THEN context(unpack_transaction("PrintTransaction", logic.value),
                         "ConstraintError", old1)
            ELSE logic
    IN  IF old_transaction.ok
        THEN Ok(Machine("Wait<Input>", old_transaction.value, old1.storage))
        ELSE old_transaction

\* impl PullupFrom<Machine<Action<Load>>, TransactionItem> for Machine<Action<Print>>
pullup_from_Load_Print(old) ==
    LET popped == pop(old.storage)
        old1   == Machine(old.state, old.transaction, popped.self)
        logic  == context(popped.ret, "LogicError", old1)
        old_transaction ==
            IF logic.ok
            THEN context(unpack_transaction("PrintTransaction", logic.value),
                         "ConstraintError", old1)
            ELSE logic
    IN  IF old_transaction.ok
        THEN Ok(Machine("Action<Print>", old_transaction.value, old1.storage))
        ELSE old_transaction

-----------------------------------------------------------------------------
(* The driver *)

\* fn new_machine() -> Machine<Wait<Start>>
new_machine == Machine("Wait<Start>", Epsilon, StackStorage(<<>>))

\* Tapes of at most n items.
Tapes(n) == UNION {[1..k -> TransactionItem] : k \in 0..n}

\* Every Machine<X> value a driver can build from the public fields: the payload
\* has the type X requires, the tape is any tape.
Machines ==
    UNION {{Machine(X, t, StackStorage(tape)) :
                t \in TransactionValues(X), tape \in Tapes(MaxTape)} : X \in TopLevel}

\* One entry of the log of calls the driver made: the function kind, the machine
\* it consumed, the payload arguments and the value returned.
Call(op, old, args, ret) == [op |-> op, old |-> old, args |-> args, ret |-> ret]

\* A value returned by transition_from or pushdown_from is a machine unless the
\* function panicked.
IsMachine(x) == "state" \in DOMAIN x

Init ==
    /\ machine \in {{m} : m \in Machines}
    /\ error = {}
    /\ history = <<>>

\* Faulty driver: the machine handed to the function stays live beside the new
\* one, as if the function had borrowed it and cloned its storage.
Keep_clone(op, old, t, new) ==
    /\ machine' = machine \cup (IF IsMachine(new) THEN {new} ELSE {})
    /\ error' = error
    /\ history' = Append(history, Call(op, old, <<t>>, new))

\* The driver keeps the machine a transition_from / pushdown_from returned.
Keep(op, old, t, new) ==
    /\ machine' = IF IsMachine(new) THEN {new} ELSE {}
    /\ error' = error
    /\ history' = Append(history, Call(op, old, <<t>>, new))

\* Faulty driver: after an Err the machine handed to pullup_from is still live, as
\* if pullup_from had borrowed it.
Receive_keep(old, ret) ==
    /\ machine' = IF ret.ok THEN {ret.value} ELSE {old}
    /\ error' = IF ret.ok THEN error ELSE error \cup {ret.error}
    /\ history' = Append(history, Call("pullup", old, <<>>, ret))

\* The driver receives the Result of a pullup_from: the machine of Ok, or the
\* MachineError of Err and no machine.
Receive(old, ret) ==
    /\ machine' = IF ret.ok THEN {ret.value} ELSE {}
    /\ error' = IF ret.ok THEN error ELSE error \cup {ret.error}
    /\ history' = Append(history, Call("pullup", old, <<>>, ret))

\* Faulty set of implementations: Machine<Wait<Input>> is also transitionable
\* from Machine<Finished>.
Transition_Start_Input_restart ==
    /\ Len(history) < MaxOps
    /\ \E old \in machine, t \in TransactionValues("Wait<Input>") :
        /\ old.state \in {"Wait<Start>", "Finished"}
        /\ Keep("transition", old, t, transition_from_Start_Input(old, t))

Transition_Start_Input ==
    /\ Len(history) < MaxOps
    /\ \E old \in machine, t \in TransactionValues("Wait<Input>") :
        /\ old.state = "Wait<Start>"
        /\ Keep("transition", old, t, transition_from_Start_Input(old, t))

Transition_Input_Finished ==
    /\ Len(history) < MaxOps
    /\ \E old \in machine, t \in TransactionValues("Finished") :
        /\ old.state = "Wait<Input>"
        /\ Keep("transition", old, t, transition_from_Input_Finished(old, t))

Pushdown_Input_Print ==
    /\ Len(history) < MaxOps
    /\ \E old \in machine, t \in TransactionValues("Action<Print>") :
        /\ old.state = "Wait<Input>"
        /\ Keep("pushdown", old, t, pushdown_from_Input_Print(old, t))

Pushdown_Print_Load ==
    /\ Len(history) < MaxOps
    /\ \E old \in machine, t \in TransactionValues("Action<Load>") :
        /\ old.state = "Action<Print>"
        /\ Keep("pushdown", old, t, pushdown_from_Print_Load(old, t))

Pullup_Print_Input ==
    /\ Len(history) < MaxOps
    /\ \E old \in machine :
        /\ old.state = "Action<Print>"
        /\ Receive(old, pullup_from_Print_Input(old))

Pullup_Load_Print ==
    /\ Len(history) < MaxOps
    /\ \E old \in machine :
        /\ old.state = "Action<Load>"
        /\ Receive(old, pullup_from_Load_Print(old))

Next ==
    \/ Transition_Start_Input
    \/ Transition_Input_Finished
    \/ Pushdown_Input_Print
    \/ Pushdown_Print_Load
    \/ Pullup_Print_Input
    \/ Pullup_Load_Print

Spec == Init /\ [][Next]_vars

\* main starts from the machine new_machine() builds.
FactoryInit ==
    /\ machine = {new_machine}
    /\ error = {}
    /\ history = <<>>

FactorySpec == FactoryInit /\ [][Next]_vars

-----------------------------------------------------------------------------
(* Calls on the storage service of a machine *)

\* A machine whose storage holds any tape.
StorageInit ==
    /\ machine \in {{Machine(new_machine.state, new_machine.transaction, StackStorage(tape))} :
                        tape \in Tapes(MaxTape)}
    /\ error = {}
    /\ history = <<>>

\* ServiceCompliance::get_mut(&mut m).push(t): the storage of the machine is
\* mutated in place, the Result is logged.
Storage_push ==
    /\ Len(history) < MaxCalls
    /\ \E m \in machine, t \in TransactionItem :
        LET pushed == push(m.storage, t)
        IN  /\ machine' = {Machine(m.state, m.transaction, pushed.self)}
            /\ error' = error
            /\ history' = Append(history, Call("push", m, <<t>>, pushed.ret))

\* ServiceCompliance::get_mut(&mut m).pop()
Storage_pop ==
    /\ Len(history) < MaxCalls
    /\ \E m \in machine :
        LET popped == pop(m.storage)
        IN  /\ machine' = {Machine(m.state, m.transaction, popped.self)}
            /\ error' = error
            /\ history' = Append(history, Call("pop", m, <<>>, popped.ret))

StorageNext == Storage_push \/ Storage_pop

StorageSpec == StorageInit /\ [][StorageNext]_vars

-----------------------------------------------------------------------------
(* Calls of the helpers: context, pack_transaction, unpack_transaction *)

\* The Results the library annotates: what pop returns and what unpack returns.
AnnotateInputs ==
    {pop(StackStorage(tape)).ret : tape \in Tapes(MaxTape)}
        \cup {unpack_transaction(T, tc) :
                  T \in {"Epsilon", "PrintTransaction"}, tc \in TransactionItem}

\* result.context(kind, &m); the log keeps this one call.
Annotate ==
    \E m \in machine, r \in AnnotateInputs, kind \in ErrorKind :
        /\ machine' = machine
        /\ error' = error
        /\ history' = <<Call("context", m, <<r, kind>>, context(r, kind, m))>>

\* unpack_transaction::<T, _>(pack_transaction(t)); the log keeps this one call,
\* with the packed item among its arguments.
PackUnpack ==
    \E m \in machine, t \in EpsilonValues \cup PrintTransactionValues,
       T \in {"Epsilon", "PrintTransaction"} :
        LET tc == pack_transaction(t)
        IN  /\ machine' = machine
            /\ error' = error
            /\ history' = <<Call("unpack", m, <<t, T, tc>>, unpack_transaction(T, tc))>>

HelperNext == Annotate \/ PackUnpack

HelperSpec == Init /\ [][HelperNext]_vars

-----------------------------------------------------------------------------
(* The operations a machine value admits *)

\* The machines some implemented operation returns when applied to m with some
\* payload: the destination exists for the state of m and the call succeeds.
Successors(m) ==
    (IF m.state = "Wait<Start>"
     THEN {transition_from_Start_Input(m, t) : t \in TransactionValues("Wait<Input>")}
     ELSE {})
    \cup
    (IF m.state = "Wait<Input>"
     THEN {transition_from_Input_Finished(m, t) : t \in TransactionValues("Finished")}
          \cup {n \in {pushdown_from_Input_Print(m, t) :
                           t \in TransactionValues("Action<Print>")} : IsMachine(n)}
     ELSE {})
    \cup
    (IF m.state = "Action<Print>"
     THEN {n \in {pushdown_from_Print_Load(m, t) :
                      t \in TransactionValues("Action<Load>")} : IsMachine(n)}
          \cup {r.value : r \in {x \in {pullup_from_Print_Input(m)} : x.ok}}
     ELSE {})
    \cup
    (IF m.state = "Action<Load>"
     THEN {r.value : r \in {x \in {pullup_from_Load_Print(m)} : x.ok}}
     ELSE {})

-----------------------------------------------------------------------------
(* Reading the log *)

\* The machines a logged call returned (none after an Err or a panic).
Returned(c) ==
    IF c.op = "pullup"
    THEN IF c.ret.ok THEN {c.ret.value} ELSE {}
    ELSE IF IsMachine(c.ret) THEN {c.ret} ELSE {}

\* Positions of the log.
Calls == 1..Len(history)

\* The positions i..j of the log are all calls of kind op.
AllOp(i, j, op) == \A k \in i..j : history[k].op = op

Top(tape) == tape[Len(tape)]

Below(tape) == SubSeq(tape, 1, Len(tape) - 1)

-----------------------------------------------------------------------------
(* C1: pairing law *)

\* N pushdowns at positions i..i+N-1 followed by pullups: every pullup among the
\* next N calls succeeded.
PullupsSucceed(i, N) ==
    \A k \in (i + N)..(i + 2 * N - 1) :
        (k \in Calls /\ AllOp(i + N, k, "pullup")) => history[k].ret.ok

\* ... and when all N pullups were made, the machine returned by the last one is
\* the machine consumed by the first pushdown: state, payload and stack.
PairRestores(i, N) ==
    (i + 2 * N - 1 \in Calls /\ AllOp(i + N, i + 2 * N - 1, "pullup"))
        => Returned(history[i + 2 * N - 1]) = {history[i].old}

\* C1: for N in {1, 2}, N pushdowns with any payloads followed at once by N
\* pullups all succeed and give back the state, the payload and the whole stack
\* (length and contents) held before the first pushdown.
C1_PairingLaw ==
    \A i \in Calls : \A N \in 1..2 :
        (i + N - 1 \in Calls /\ AllOp(i, i + N - 1, "pushdown"))
            => (PullupsSucceed(i, N) /\ PairRestores(i, N))

\* Two nested pushdowns from Wait<Input> over a non-empty stack, then two pullups.
C1_Witness ==
    \E i \in Calls :
        /\ i + 3 \in Calls
        /\ AllOp(i, i + 1, "pushdown")
        /\ AllOp(i + 2, i + 3, "pullup")
        /\ history[i].old.state = "Wait<Input>"
        /\ Len(history[i].old.storage.tape) >= 1
        /\ history[i + 1].old.transaction = PrintTransaction("Hello")
        /\ Returned(history[i + 3]) = {history[i].old}

-----------------------------------------------------------------------------
(* C2: what a successful pullup restores *)

\* C2: a successful pullup returns a machine whose payload is the value that was
\* on top of the consumed machine's stack and whose stack is the consumed stack
\* without that top element, the lower elements unchanged and in order.
C2_PullupRestoresTop ==
    \A i \in Calls :
        (history[i].op = "pullup" /\ history[i].ret.ok)
            => LET old == history[i].old
                   new == history[i].ret.value
               IN  /\ Len(old.storage.tape) >= 1
                   /\ new.transaction = Top(old.storage.tape).inner
                   /\ new.storage.tape = Below(old.storage.tape)

\* A pullup into Action<Print> restored "Hello" from above two lower elements.
C2_Witness ==
    \E i \in Calls :
        /\ history[i].op = "pullup"
        /\ history[i].ret.ok
        /\ history[i].old.state = "Action<Load>"
        /\ Len(history[i].old.storage.tape) = 3
        /\ history[i].ret.value.transaction = PrintTransaction("Hello")

-----------------------------------------------------------------------------
(* C3: what a pushdown builds *)

\* The variant a payload of the given type is packed into.
VariantOf(t) == IF t.type = "PrintTransaction" THEN "Print" ELSE "Epsilon"

\* C3: a pushdown returns a machine that carries the payload the caller supplied
\* and the consumed machine's stack with the consumed machine's own payload,
\* packed, on top; the elements below are unchanged and in order.
C3_PushdownArchives ==
    \A i \in Calls :
        history[i].op = "pushdown"
            => LET old == history[i].old
                   t   == history[i].args[1]
               IN  \E new \in Returned(history[i]) :
                       /\ new.transaction = t
                       /\ Len(new.storage.tape) = Len(old.storage.tape) + 1
                       /\ Below(new.storage.tape) = old.storage.tape
                       /\ Top(new.storage.tape).inner = old.transaction
                       /\ Top(new.storage.tape).variant = VariantOf(old.transaction)

\* A pushdown out of Action<Print> carrying "Hello", over a non-empty stack.
C3_Witness ==
    \E i \in Calls :
        /\ history[i].op = "pushdown"
        /\ history[i].old.state = "Action<Print>"
        /\ history[i].old.transaction = PrintTransaction("Hello")
        /\ Len(history[i].old.storage.tape) >= 1
        /\ \E new \in Returned(history[i]) :
               Top(new.storage.tape) = Item_Print(PrintTransaction("Hello"))

-----------------------------------------------------------------------------
(* C4: stack depth law *)

\* C4: K consecutive pushdowns (positions i..j) raise the stack length by exactly
\* K over its value before the first of them, and a successful pullup right after
\* them lowers it by exactly 1.
C4_StackDepthLaw ==
    \A i \in Calls : \A j \in Calls :
        (i <= j /\ AllOp(i, j, "pushdown"))
            => LET base == Len(history[i].old.storage.tape)
                   K    == j - i + 1
               IN  /\ \E new \in Returned(history[j]) :
                          Len(new.storage.tape) = base + K
                   /\ (j + 1 \in Calls /\ history[j + 1].op = "pullup"
                                       /\ history[j + 1].ret.ok)
                          => Len(history[j + 1].ret.value.storage.tape) = base + K - 1

\* Two consecutive pushdowns and then a successful pullup.
C4_Witness ==
    \E i \in Calls :
        /\ i + 2 \in Calls
        /\ AllOp(i, i + 1, "pushdown")
        /\ history[i + 2].op = "pullup"
        /\ history[i + 2].ret.ok
        /\ Len(history[i + 2].ret.value.storage.tape) = Len(history[i].old.storage.tape) + 1

-----------------------------------------------------------------------------
(* C5: empty-pop law *)

\* C5: a pullup of a machine whose stack is empty returns a failure of kind
\* LogicError: no machine is returned, the kind is not ConstraintError, and the
\* driver is left without a machine.
C5_EmptyPopLaw ==
    \A i \in Calls :
        (history[i].op = "pullup" /\ Len(history[i].old.storage.tape) = 0)
            => /\ ~history[i].ret.ok
               /\ history[i].ret.error.inner.context = "LogicError"
               /\ Returned(history[i]) = {}
               /\ machine = {}

\* A pullup out of Action<Load> on an empty stack was made and reported.
C5_Witness ==
    \E i \in Calls :
        /\ history[i].op = "pullup"
        /\ history[i].old.state = "Action<Load>"
        /\ history[i].old.storage.tape = <<>>
        /\ \E e \in error : e.inner.context = "LogicError"

-----------------------------------------------------------------------------
(* C6: type-mismatch law *)

\* The variant the destination of a pullup out of state X expects on top.
ExpectedVariant(X) == IF X = "Action<Print>" THEN "Epsilon" ELSE "Print"

\* C6: a pullup of a machine whose non-empty stack has on top another variant than
\* the destination expects returns a failure of kind ConstraintError and no machine.
C6_TypeMismatchLaw ==
    \A i \in Calls :
        LET old == history[i].old
        IN  (/\ history[i].op = "pullup"
             /\ Len(old.storage.tape) >= 1
             /\ Top(old.storage.tape).variant # ExpectedVariant(old.state))
                => /\ ~history[i].ret.ok
                   /\ history[i].ret.error.inner.context = "ConstraintError"
                   /\ Returned(history[i]) = {}
                   /\ machine = {}

\* A pullup out of Action<Print> met a Print item on top of the stack.
C6_Witness ==
    \E i \in Calls :
        /\ history[i].op = "pullup"
        /\ history[i].old.state = "Action<Print>"
        /\ Len(history[i].old.storage.tape) >= 1
        /\ Top(history[i].old.storage.tape).variant = "Print"
        /\ \E e \in error : e.inner.context = "ConstraintError"

-----------------------------------------------------------------------------
(* C7: direct-transition purity *)

\* C7: a direct transition returns a machine whose stack is the consumed machine's
\* stack: same length, same contents, same order.
C7_DirectTransitionPurity ==
    \A i \in Calls :
        history[i].op = "transition"
            => \E new \in Returned(history[i]) :
                   new.storage = history[i].old.storage

\* Both direct transitions were made over a stack of two items.
C7_Witness ==
    /\ \E i \in Calls :
           /\ history[i].op = "transition"
           /\ history[i].old.state = "Wait<Start>"
           /\ Len(history[i].old.storage.tape) = 2
    /\ \E i \in Calls :
           /\ history[i].op = "transition"
           /\ history[i].old.state = "Wait<Input>"
           /\ \E new \in Returned(history[i]) : Len(new.storage.tape) = 2

-----------------------------------------------------------------------------
(* C8: only pullup is fallible *)

\* C8: every pushdown and every direct transition returns a destination machine,
\* never an error: after it the driver holds that machine and no error.
C8_OnlyPullupFallible ==
    \A i \in Calls :
        history[i].op \in {"pushdown", "transition"}
            => /\ IsMachine(history[i].ret)
               /\ (i = Len(history) => (machine = {history[i].ret} /\ error = {}))

\* The last call was a pushdown onto a stack that already held MaxTape items.
C8_Witness ==
    /\ Len(history) >= 1
    /\ history[Len(history)].op = "pushdown"
    /\ Len(history[Len(history)].old.storage.tape) >= MaxTape
    /\ machine # {}

-----------------------------------------------------------------------------
(* C9: the six legal state changes *)

SixPairs ==
    { <<"transition", "Wait<Start>", "Wait<Input>">>,
      <<"transition", "Wait<Input>", "Finished">>,
      <<"pushdown", "Wait<Input>", "Action<Print>">>,
      <<"pushdown", "Action<Print>", "Action<Load>">>,
      <<"pullup", "Action<Load>", "Action<Print>">>,
      <<"pullup", "Action<Print>", "Wait<Input>">> }

\* C9: every step that gives the driver a new machine is one of the six
\* implemented (kind, source, destination) triples, and a step that gives none
\* (a failed pullup) is a pullup out of an Action state.
C9_OnlySixPairs ==
    [][ /\ Len(history') = Len(history) + 1
        /\ \A o \in machine :
              LET c == history'[Len(history')]
              IN  /\ c.old = o
                  /\ \A n \in machine' : <<c.op, o.state, n.state>> \in SixPairs
                  /\ machine' = {} =>
                        (c.op = "pullup" /\ o.state \in {"Action<Print>", "Action<Load>"})
      ]_vars

\* One run made each of the six state changes.
C9_Witness ==
    \A p \in SixPairs :
        \E i \in Calls :
            \E n \in Returned(history[i]) :
                <<history[i].op, history[i].old.state, n.state>> = p

-----------------------------------------------------------------------------
(* C10: the payload has the type of the state *)

\* C10: the machine the driver holds carries an Epsilon in Wait<Start>,
\* Wait<Input>, Action<Load> and Finished, and a PrintTransaction in Action<Print>.
C10_PayloadTypeOfState ==
    \A m \in machine :
        /\ m.state \in {"Wait<Start>", "Wait<Input>", "Action<Load>", "Finished"}
              => m.transaction \in EpsilonValues
        /\ m.state = "Action<Print>" => m.transaction \in PrintTransactionValues

\* A machine in Action<Print> that a pullup produced, and one in Wait<Input>.
C10_Witness ==
    /\ \E m \in machine : m.state = "Wait<Input>"
    /\ Len(history) >= 2
    /\ history[Len(history)].op = "pullup"
    /\ history[Len(history) - 1].op = "pullup"
    /\ \E n \in Returned(history[Len(history) - 1]) :
           n.state = "Action<Print>" /\ n.transaction = PrintTransaction("dbg")

-----------------------------------------------------------------------------

(* C11: the scenario of main *)

\* The calls of main, in order: the kind and the payload arguments.
Scenario ==
    << <<"transition", <<Epsilon>> >>,
       <<"pushdown", <<PrintTransaction("Hello")>> >>,
       <<"pushdown", <<Epsilon>> >>,
       <<"pullup", <<>> >>,
       <<"pullup", <<>> >>,
       <<"transition", <<Epsilon>> >> >>

\* The machine main holds after each call, as the claim lists them.
ScenarioMachines ==
    << [state |-> "Wait<Input>", transaction |-> Epsilon, storage |-> [tape |-> <<>>]],
       [state |-> "Action<Print>", transaction |-> PrintTransaction("Hello"),
        storage |-> [tape |-> <<Item_Epsilon(Epsilon)>>]],
       [state |-> "Action<Load>", transaction |-> Epsilon,
        storage |-> [tape |-> <<Item_Epsilon(Epsilon),
                                Item_Print(PrintTransaction("Hello"))>>]],
       [state |-> "Action<Print>", transaction |-> PrintTransaction("Hello"),
        storage |-> [tape |-> <<Item_Epsilon(Epsilon)>>]],
       [state |-> "Wait<Input>", transaction |-> Epsilon, storage |-> [tape |-> <<>>]],
       [state |-> "Finished", transaction |-> Epsilon, storage |-> [tape |-> <<>>]] >>

\* The log so far is the first calls of the scenario.
FollowsScenario ==
    /\ Len(history) <= Len(Scenario)
    /\ \A k \in Calls :
           <<history[k].op, history[k].args>> = Scenario[k]

\* C11: from the factory machine, as long as the driver makes the calls of the
\* scenario in order, every call returns the machine the claim lists for it, no
\* call fails, and after the sixth the driver holds Finished with an empty stack.
C11_Scenario ==
    FollowsScenario
        => /\ error = {}
           /\ \A k \in Calls : Returned(history[k]) = {ScenarioMachines[k]}
           /\ Len(history) >= 1 => machine = {ScenarioMachines[Len(history)]}

\* The six calls of the scenario were made.
C11_Witness ==
    /\ FollowsScenario
    /\ Len(history) = Len(Scenario)
    /\ history[1].old = new_machine
    /\ \E m \in machine : m.state = "Finished" /\ m.storage.tape = <<>>

-----------------------------------------------------------------------------
(* C20: no pullup fails in a run from the factory machine *)

\* C20: in a run from the factory machine no pullup returns an error: the driver
\* never receives a MachineError, of either kind, and every logged pullup is Ok.
C20_NoFailureFromFactory ==
    /\ error = {}
    /\ \A i \in Calls : history[i].op = "pullup" => history[i].ret.ok

\* Pullups out of both Action states were made, one of them more than once.
C20_Witness ==
    /\ history # <<>>
    /\ history[1].old = new_machine
    /\ Cardinality({i \in Calls : history[i].op = "pullup"
                                    /\ history[i].old.state = "Action<Print>"}) >= 2
    /\ \E i \in Calls : history[i].op = "pullup" /\ history[i].old.state = "Action<Load>"

-----------------------------------------------------------------------------

(* C12: a failed pullup leaves no machine *)

FailedPullup(i) == history[i].op = "pullup" /\ ~history[i].ret.ok

\* C12: a pullup that returned an error is the last call made on the automaton:
\* the driver holds no machine, no operation is enabled, and the only machine
\* value left is the snapshot inside the one error it received.
C12_FailedPullupLeavesNoMachine ==
    \A i \in Calls :
        FailedPullup(i)
            => /\ i = Len(history)
               /\ machine = {}
               /\ error = {history[i].ret.error}
               /\ ~ENABLED Next

\* A pullup failed while the driver could still have made further calls.
C12_Witness ==
    /\ Len(history) >= 2
    /\ Len(history) < MaxOps
    /\ FailedPullup(Len(history))
    /\ machine = {}
    /\ \E e \in error : e.machine.state = "Action<Print>"

-----------------------------------------------------------------------------
(* C13: the snapshot of a failed pullup *)

\* C13 as claimed: the snapshot in the MachineError of a failed pullup is the
\* machine the pullup was invoked on, stack included.
C13_SnapshotIsSource ==
    \A i \in Calls :
        FailedPullup(i) => history[i].ret.error.machine = history[i].old

\* C13 as amended: the snapshot of a failed pullup has the state tag and the payload
\* of the machine the pullup was invoked on; its stack is that machine's stack when
\* the kind is LogicError, and that machine's stack without its top element (the
\* popped, mismatching item) when the kind is ConstraintError.
C13_SnapshotAtFailure ==
    \A i \in Calls :
        FailedPullup(i)
            => LET old  == history[i].old
                   e    == history[i].ret.error
               IN  /\ e.machine.state = old.state
                   /\ e.machine.transaction = old.transaction
                   /\ e.inner.context = "LogicError"
                         => e.machine.storage = old.storage
                   /\ e.inner.context = "ConstraintError"
                         => /\ Len(old.storage.tape) >= 1
                            /\ e.machine.storage.tape = Below(old.storage.tape)

\* A pullup over a stack of at least two items failed with ConstraintError.
C13_Witness ==
    \E i \in Calls :
        /\ FailedPullup(i)
        /\ history[i].ret.error.inner.context = "ConstraintError"
        /\ Len(history[i].old.storage.tape) >= 2
        /\ Len(history[i].ret.error.machine.storage.tape)
               = Len(history[i].old.storage.tape) - 1

-----------------------------------------------------------------------------
(* C17: Finished is terminal *)

InFinished == \E m \in machine : m.state = "Finished"

\* C17: no step is taken from a state in which the machine is in Finished: no
\* transition, pushdown or pullup applies, so machine, payload and stack stay.
C17_FinishedIsTerminal == [][~InFinished]_vars

\* Finished was reached, over a non-empty stack, with calls to spare.
C17_Witness ==
    /\ Len(history) >= 1
    /\ Len(history) < MaxOps
    /\ \E m \in machine : m.state = "Finished" /\ Len(m.storage.tape) >= 1

-----------------------------------------------------------------------------
(* C18: single ownership *)

\* C18: the driver holds at most one machine; after a call the machine that call
\* consumed is not live any more and the only live machine, if any, is the one
\* the call returned.
C18_SingleOwnership ==
    /\ Cardinality(machine) <= 1
    /\ history # <<>>
          => LET c == history[Len(history)]
             IN  /\ c.old \notin machine
                 /\ machine \subseteq Returned(c)

\* A pushdown consumed a machine and the driver holds the one it returned.
C18_Witness ==
    /\ Len(history) >= 3
    /\ history[Len(history)].op = "pushdown"
    /\ Cardinality(machine) = 1
    /\ \E m \in machine : m.storage.tape # history[Len(history)].old.storage.tape

-----------------------------------------------------------------------------
(* C19: exact failure condition of pullup *)

\* C19: a pullup fails exactly when the stack of the machine it consumed is empty
\* or has on top another variant than the destination expects; the empty case is
\* a LogicError, the mismatch a ConstraintError.
C19_ExactFailureCondition ==
    \A i \in Calls :
        history[i].op = "pullup"
            => LET old      == history[i].old
                   ret      == history[i].ret
                   empty    == Len(old.storage.tape) = 0
                   mismatch == /\ Len(old.storage.tape) >= 1
                               /\ Top(old.storage.tape).variant
                                      # ExpectedVariant(old.state)
               IN  /\ ret.ok <=> ~(empty \/ mismatch)
                   /\ ~ret.ok => ret.error.inner.context \in ErrorKind
                   /\ (~ret.ok /\ empty) => ret.error.inner.context = "LogicError"
                   /\ (~ret.ok /\ mismatch) => ret.error.inner.context = "ConstraintError"

\* A pullup with a matching top succeeded and the next one met a mismatch.
C19_Witness ==
    \E i \in Calls :
        /\ i + 1 \in Calls
        /\ history[i].op = "pullup"
        /\ history[i].ret.ok
        /\ Top(history[i].old.storage.tape).variant = ExpectedVariant(history[i].old.state)
        /\ FailedPullup(i + 1)
        /\ Len(history[i + 1].old.storage.tape) >= 1

-----------------------------------------------------------------------------

(* C14: annotation keeps the branch *)

\* C14: context(kind, machine) returns a success unchanged, with the same value
\* and no snapshot, and turns a failure into a failure classified with exactly
\* the kind passed, around the original failure.
C14_AnnotationKeepsBranch ==
    \A i \in Calls :
        history[i].op = "context"
            => LET r    == history[i].args[1]
                   kind == history[i].args[2]
                   ret  == history[i].ret
               IN  /\ ret.ok = r.ok
                   /\ r.ok => ret = r
                   /\ ~r.ok => /\ ret.error.inner.context = kind
                               /\ ret.error.inner.failure = r.error

\* A RuntimeConstraintError was annotated with LogicError.
C14_Witness ==
    \E i \in Calls :
        /\ history[i].op = "context"
        /\ ~history[i].args[1].ok
        /\ history[i].args[1].error.fail = "RuntimeConstraintError"
        /\ history[i].args[2] = "LogicError"
        /\ ~history[i].ret.ok

-----------------------------------------------------------------------------
(* C15: StackStorage is a LIFO *)

\* The elements pushed and not yet popped after the first k logged calls, oldest
\* first, starting from the tape the first call found: a push adds its argument
\* at the end, a pop takes the last one away when there is one.
RECURSIVE Outstanding(_)
Outstanding(k) ==
    IF k = 0
    THEN history[1].old.storage.tape
    ELSE LET prev == Outstanding(k - 1)
         IN  IF history[k].op = "push"
             THEN Append(prev, history[k].args[1])
             ELSE IF prev = <<>> THEN prev ELSE Below(prev)

\* The tape the k-th logged call left behind.
TapeAfter(k) ==
    IF k < Len(history)
    THEN history[k + 1].old.storage.tape
    ELSE (CHOOSE m \in machine : TRUE).storage.tape

\* C15: in any sequence of push and pop calls, push returns Ok and puts exactly
\* its argument on top; pop on a non-empty stack returns the most recently pushed
\* element not yet popped and removes only it; pop on an empty stack returns
\* StackPopError and leaves the stack empty.
C15_StackIsLifo ==
    \A k \in Calls :
        LET before == Outstanding(k - 1)
            c      == history[k]
        IN  /\ machine # {}
            /\ c.old.storage.tape = before
            /\ c.op = "push"
                  => (c.ret.ok /\ TapeAfter(k) = Append(before, c.args[1]))
            /\ (c.op = "pop" /\ before # <<>>)
                  => (c.ret = Ok(Top(before)) /\ TapeAfter(k) = Below(before))
            /\ (c.op = "pop" /\ before = <<>>)
                  => (c.ret = Err(StackPopError) /\ TapeAfter(k) = <<>>)

\* Two different items were pushed and popped back in reverse order, and a
\* further pop found the stack empty.
C15_Witness ==
    /\ Len(history) = 4
    /\ history[1].old.storage.tape # <<>>
    /\ history[1].op = "push"
    /\ history[2].op = "push"
    /\ history[1].args[1] # history[2].args[1]
    /\ history[3].op = "pop"
    /\ history[3].ret = Ok(history[2].args[1])
    /\ history[4].op = "pop"
    /\ history[4].ret = Ok(history[1].args[1])

-----------------------------------------------------------------------------
(* C16: packing and unpacking round-trip *)

\* C16: for every Epsilon and PrintTransaction value t, packing gives a
\* TransactionItem; unpacking it into t's own type returns Ok(t), and unpacking it
\* into the other transaction type fails.
C16_PackUnpackRoundTrip ==
    \A i \in Calls :
        history[i].op = "unpack"
            => LET t  == history[i].args[1]
                   T  == history[i].args[2]
                   tc == history[i].args[3]
               IN  /\ tc \in TransactionItem
                   /\ tc.inner = t
                   /\ T = t.type => history[i].ret = Ok(t)
                   /\ T # t.type => ~history[i].ret.ok

\* PrintTransaction("Hello") was packed and unpacked into its own type.
C16_Witness ==
    \E i \in Calls :
        /\ history[i].op = "unpack"
        /\ history[i].args[1] = PrintTransaction("Hello")
        /\ history[i].args[2] = "PrintTransaction"
        /\ history[i].ret.ok

-----------------------------------------------------------------------------

(* C21: the stack is determined by the state, from the factory machine *)

\* C21: in a run from the factory machine the stack is empty in Wait<Start>,
\* Wait<Input> and Finished, it is [Epsilon] in Action<Print>, and in Action<Load>
\* it is [Epsilon, Print(p)] with p the payload of the Action<Print> machine the
\* pushdown into Action<Load> consumed; it never holds more than 2 items.
C21_StackDeterminedByState ==
    \A m \in machine :
        /\ Len(m.storage.tape) <= 2
        /\ m.state \in {"Wait<Start>", "Wait<Input>", "Finished"}
              => m.storage.tape = <<>>
        /\ m.state = "Action<Print>"
              => m.storage.tape = <<[variant |-> "Epsilon", inner |-> Epsilon]>>
        /\ m.state = "Action<Load>"
              => LET c == history[Len(history)]
                 IN  /\ c.op = "pushdown"
                     /\ c.old.state = "Action<Print>"
                     /\ c.old.transaction \in PrintTransactionValues
                     /\ m.storage.tape = <<[variant |-> "Epsilon", inner |-> Epsilon],
                                           [variant |-> "Print", inner |-> c.old.transaction]>>

\* Action<Load> was entered a second time, with "dbg" archived under it, after an
\* earlier round that archived "Hello".
C21_Witness ==
    /\ Len(history) >= 6
    /\ history[1].old = new_machine
    /\ \E m \in machine :
           /\ m.state = "Action<Load>"
           /\ m.storage.tape[2].inner = PrintTransaction("dbg")
    /\ \E i \in Calls :
           /\ history[i].op = "pushdown"
           /\ history[i].old.state = "Action<Print>"
           /\ history[i].old.transaction = PrintTransaction("Hello")

-----------------------------------------------------------------------------

(* C22: from the factory machine only Finished is stuck, and Finished is reachable *)

\* Finished is reached from m by at most n successful operations.
RECURSIVE CanReachFinished(_, _)
CanReachFinished(m, n) ==
    \/ m.state = "Finished"
    \/ /\ n > 0
       /\ \E next \in Successors(m) : CanReachFinished(next, n - 1)

\* C22: in a run from the factory machine, a machine admits no operation exactly
\* when it is in Finished; a machine in any other state has an operation that
\* succeeds (and the driver can take it while it has calls left), and Finished is
\* reached from it by at most three successful operations.
C22_OnlyFinishedIsStuck ==
    \A m \in machine :
        /\ Successors(m) = {} <=> m.state = "Finished"
        /\ (m.state # "Finished" /\ Len(history) < MaxOps) => ENABLED Next
        /\ CanReachFinished(m, 3)

\* The machine is in Action<Load>, three operations away from Finished and not
\* fewer, after it had been back in Wait<Input> once.
C22_Witness ==
    /\ history # <<>>
    /\ history[1].old = new_machine
    /\ \E i \in Calls : history[i].op = "pullup" /\ history[i].old.state = "Action<Print>"
    /\ \E m \in machine :
           /\ m.state = "Action<Load>"
           /\ Successors(m) # {}
           /\ ~CanReachFinished(m, 2)
           /\ CanReachFinished(m, 3)

-----------------------------------------------------------------------------

TypeOK ==
    /\ Cardinality(machine) <= 1
    /\ Cardinality(error) <= 1
    /\ Len(history) <= MaxOps

====
